---- MODULE Spec2Model ----
(***************************************************************************)
(* Typed dispatch layer of typed-path: TypedPath / TypedPathBuf /          *)
(* TypedComponent (src/typed/non_utf8.rs, .../components/component.rs) and *)
(* the compile-time native binding (src/native.rs).                        *)
(*                                                                         *)
(* A path value is a record [tag, bytes]: the active enum variant and the  *)
(* bytes the wrapped UnixPath / WindowsPath views or owns.  The two path   *)
(* engines (crate::unix, crate::windows) are collaborators of this layer;  *)
(* what the layer needs from them is modelled in the section "Engines".    *)
(***************************************************************************)
EXTENDS Naturals, Sequences, FiniteSets

(* ------------------------------ bytes -------------------------------- *)

\* b'\\', the Windows separator tested by TypedPath::new
BS == 92
\* b'/', the Unix separator (also accepted by the Windows grammar)
FS == 47
\* b':' of a drive-letter prefix such as C:
COLON == 58
\* b'.' of the current- and parent-directory segments
DOT == 46
\* b'C', an ASCII letter
LETTER_C == 67
\* a byte that is no text: 0xFF occurs in no UTF-8 encoding
NonText == 255

\* every byte sequence up to this length is handed to the constructors
MaxLen == 3

\* longest buffer Push grows
MaxBuf == 4

Alphabet == {BS, FS, COLON, DOT, LETTER_C, NonText}

\* Longer inputs, after the examples of TypedPath::new's documentation:
\* C:\C, C:/C, \C\C, /C/C, a UNC share \\C\C, a device namespace \\.\C,
\* and a path with a non-text tail
Samples ==
    { <<LETTER_C, COLON, BS, LETTER_C>>,
      <<LETTER_C, COLON, FS, LETTER_C>>,
      <<BS, LETTER_C, BS, LETTER_C>>,
      <<FS, LETTER_C, FS, LETTER_C>>,
      <<BS, BS, LETTER_C, BS, LETTER_C>>,
      <<BS, BS, DOT, BS, LETTER_C>>,
      <<FS, DOT, DOT, FS, NonText>> }

Inputs == UNION {[1..n -> Alphabet] : n \in 0..MaxLen} \cup Samples

Encodings == {"Unix", "Windows"}

First(s) == IF Len(s) = 0 THEN 0 ELSE s[1]

Last(s) == IF Len(s) = 0 THEN 0 ELSE s[Len(s)]

Drop(s, k) == IF k >= Len(s) THEN <<>> ELSE SubSeq(s, k + 1, Len(s))

\* str / String hold UTF-8 only; over Alphabet that is: every byte is ASCII
IsUtf8(s) == \A i \in 1..Len(s) : s[i] < 128

(* ------------------------------ Engines ------------------------------ *)
(* crate::unix and crate::windows: the two path grammars.                  *)

IsLetter(b) == b \in (65..90) \cup (97..122)

WinSeparators == {BS, FS}

UnixSeparators == {FS}

\* number of bytes from index i on that are no Windows separator
RECURSIVE RunLen(_, _)
RunLen(s, i) ==
    IF i > Len(s) \/ s[i] \in WinSeparators THEN 0 ELSE 1 + RunLen(s, i + 1)

\* Length of the prefix token the Windows grammar recognizes at the start
\* of s, 0 when there is none: a device namespace (\\.\NAME), a UNC share
\* (\\SERVER\SHARE), a drive letter (C:).  Outside the verbatim forms
\* (\\?\, which need the byte '?', not in Alphabet) the two separators are
\* interchangeable.
WindowsPrefixLen(s) ==
    LET n == Len(s) IN
    IF n >= 2 /\ IsLetter(s[1]) /\ s[2] = COLON THEN 2
    ELSE IF n >= 5 /\ s[1] \in WinSeparators /\ s[2] \in WinSeparators THEN
        IF s[3] = DOT /\ s[4] \in WinSeparators /\ RunLen(s, 5) > 0
        THEN 4 + RunLen(s, 5)
        ELSE LET server == RunLen(s, 3) IN
             IF server > 0 /\ 2 + server < n /\ RunLen(s, 4 + server) > 0
             THEN 3 + server + RunLen(s, 4 + server)
             ELSE 0
    ELSE 0

\* WindowsPath::new(s).components().has_prefix()
has_prefix(s) == WindowsPrefixLen(s) > 0

\* UnixPath::new / WindowsPath::new: a view of the same bytes
UnixPath_new(s) == s

WindowsPath_new(s) == s

\* Path::to_path_buf: an owned copy of the viewed bytes
Path_to_path_buf(p) == p

\* PathBuf::as_path: a view of the owned bytes
PathBuf_as_path(p) == p

\* UnixPathBuf::from / WindowsPathBuf::from of a Vec<u8> or a String: the
\* buffer takes the bytes over
PathBuf_from(s) == s

(* --------------------------- typed values ----------------------------- *)

NoVal == [tag |-> "None", bytes |-> <<>>]

Unix(p) == [tag |-> "Unix", bytes |-> p]

Windows(p) == [tag |-> "Windows", bytes |-> p]

\* TypedPath::new testing the first byte against '/' instead of '\'
TypedPath_new_wrong_separator(s) ==
    IF has_prefix(WindowsPath_new(s)) \/ First(s) = FS
    THEN Windows(WindowsPath_new(s))
    ELSE Unix(UnixPath_new(s))

\* TypedPath::new with the first-byte test negated
TypedPath_new_negated_test(s) ==
    IF has_prefix(WindowsPath_new(s)) \/ First(s) # FS
    THEN Windows(WindowsPath_new(s))
    ELSE Unix(UnixPath_new(s))

\* TypedPath::new
TypedPath_new(s) ==
    LET winpath == WindowsPath_new(s) IN
    IF has_prefix(winpath) \/ (Len(s) > 0 /\ s[1] = BS)
    THEN Windows(winpath)
    ELSE Unix(UnixPath_new(s))

\* TypedPath::is_unix, TypedPath::is_windows
TypedPath_is_unix(p) == p.tag = "Unix"

TypedPath_is_windows(p) == p.tag = "Windows"

\* to_path_buf going through TypedPathBuf::from(bytes), which classifies anew
TypedPath_to_path_buf_reclassify(p) ==
    LET q == TypedPath_new(p.bytes) IN
    [tag |-> q.tag, bytes |-> Path_to_path_buf(q.bytes)]

\* TypedPath::to_path_buf
TypedPath_to_path_buf(p) ==
    IF p.tag = "Unix"
    THEN Unix(Path_to_path_buf(p.bytes))
    ELSE Windows(Path_to_path_buf(p.bytes))

\* TypedPathBuf::is_unix, TypedPathBuf::is_windows
TypedPathBuf_is_unix(b) == b.tag = "Unix"

TypedPathBuf_is_windows(b) == b.tag = "Windows"

\* as_path with its match arms exchanged
TypedPathBuf_as_path_flipped(b) ==
    IF b.tag = "Unix"
    THEN Windows(PathBuf_as_path(b.bytes))
    ELSE Unix(PathBuf_as_path(b.bytes))

\* TypedPathBuf::as_path
TypedPathBuf_as_path(b) ==
    IF b.tag = "Unix"
    THEN Unix(PathBuf_as_path(b.bytes))
    ELSE Windows(PathBuf_as_path(b.bytes))

\* From<&[u8]> for TypedPath, From<&str> for TypedPath
TypedPath_from_slice(s) == TypedPath_new(s)

TypedPath_from_str(s) == TypedPath_new(s)

\* From<&[u8]> for TypedPathBuf
TypedPathBuf_from_slice(s) == TypedPath_to_path_buf(TypedPath_new(s))

\* From<&[u8; N]> for TypedPathBuf
TypedPathBuf_from_array(s) == TypedPathBuf_from_slice(s)

\* From<Vec<u8>> dropping a trailing separator of a Unix path
TypedPathBuf_from_vec_trimmed(s) ==
    IF TypedPath_new(s).tag = "Unix"
    THEN Unix(PathBuf_from(IF Last(s) = FS THEN SubSeq(s, 1, Len(s) - 1) ELSE s))
    ELSE Windows(PathBuf_from(s))

\* From<Vec<u8>> for TypedPathBuf
TypedPathBuf_from_vec(s) ==
    IF TypedPath_new(s).tag = "Unix"
    THEN Unix(PathBuf_from(s))
    ELSE Windows(PathBuf_from(s))

\* From<&str> for TypedPathBuf
TypedPathBuf_from_str(s) == TypedPathBuf_from_slice(s)

\* From<String> for TypedPathBuf
TypedPathBuf_from_string(s) ==
    IF TypedPath_new(s).tag = "Unix"
    THEN Unix(PathBuf_from(s))
    ELSE Windows(PathBuf_from(s))

(* --------------------------- conversions ------------------------------ *)

\* Result<T, TypedPathBuf> / Option<&Path>: ok says Ok / Some, val is the
\* payload ("Std" tags a std::path value); engine records what the
\* variant-specific conversion answered when it was consulted
NoRes == [kind |-> "none", ok |-> FALSE, val |-> NoVal, engine |-> FALSE]

Ok(k, v, e) == [kind |-> k, ok |-> TRUE, val |-> v, engine |-> e]

Err(k, v, e) == [kind |-> k, ok |-> FALSE, val |-> v, engine |-> e]

Std(p) == [tag |-> "Std", bytes |-> p]

\* try_from unwrapping whichever variant it is given
UnixPathBuf_try_from_any_variant(path) == Ok("unix", Unix(path.bytes), FALSE)

\* TryFrom<TypedPathBuf> for UnixPathBuf
UnixPathBuf_try_from(path) ==
    IF path.tag = "Unix"
    THEN Ok("unix", Unix(path.bytes), FALSE)
    ELSE Err("unix", path, FALSE)

\* TryFrom<TypedPathBuf> for WindowsPathBuf
WindowsPathBuf_try_from(path) ==
    IF path.tag = "Windows"
    THEN Ok("windows", Windows(path.bytes), FALSE)
    ELSE Err("windows", path, FALSE)

\* PathBuf::try_from(UnixPathBuf) / PathBuf::try_from(WindowsPathBuf), on
\* the build where that grammar is native: the std value, or the buffer
\* handed back when the conversion itself fails (accepts says which)
Engine_into_std(p, accepts) ==
    IF accepts THEN [ok |-> TRUE, val |-> p] ELSE [ok |-> FALSE, val |-> p]

\* UnixPath / WindowsPath as TryAsRef<Path>: only the engine of the native
\* grammar can answer Some
Engine_try_as_ref(enc, native_enc, p, accepts) ==
    IF enc = native_enc /\ accepts
    THEN Ok("as_ref", Std(p), accepts)
    ELSE Err("as_ref", NoVal, accepts)

\* TryAsRef<Path> for TypedPath
TypedPath_try_as_ref(native_enc, path, accepts) ==
    IF path.tag = "Unix"
    THEN Engine_try_as_ref("Unix", native_enc, path.bytes, accepts)
    ELSE Engine_try_as_ref("Windows", native_enc, path.bytes, accepts)

\* try_from with the cfg attributes of its two arms exchanged
PathBuf_try_from_cfg_swapped(native_enc, path, accepts) ==
    IF path.tag # native_enc
    THEN Ok("std", Std(path.bytes), accepts)
    ELSE Err("std", path, accepts)

\* TryFrom<TypedPathBuf> for PathBuf: the arm of the native variant is
\* compiled in (cfg(unix) / cfg(windows)), every other value falls through
PathBuf_try_from(native_enc, path, accepts) ==
    IF native_enc = "Unix" /\ path.tag = "Unix"
    THEN LET r == Engine_into_std(path.bytes, accepts) IN
         IF r.ok THEN Ok("std", Std(r.val), accepts)
         ELSE Err("std", Unix(r.val), accepts)
    ELSE IF native_enc = "Windows" /\ path.tag = "Windows"
    THEN LET r == Engine_into_std(path.bytes, accepts) IN
         IF r.ok THEN Ok("std", Std(r.val), accepts)
         ELSE Err("std", Windows(r.val), accepts)
    ELSE Err("std", path, accepts)

(* ------------------------------ native -------------------------------- *)

\* TypedPathBuf::from_unix / from_windows: an owned copy under that tag
TypedPathBuf_from_unix(p) == Unix(Path_to_path_buf(p))

TypedPathBuf_from_windows(p) == Windows(Path_to_path_buf(p))

\* to_typed_path going through TypedPath::new
NativePath_to_typed_path_classify(native_enc, p) == TypedPath_new(p)

\* NativePath::to_typed_path (unix_impl / windows_impl)
NativePath_to_typed_path(native_enc, p) ==
    IF native_enc = "Unix" THEN Unix(p) ELSE Windows(p)

\* NativePath::to_typed_path_buf (unix_impl / windows_impl)
NativePath_to_typed_path_buf(native_enc, p) ==
    IF native_enc = "Unix"
    THEN TypedPathBuf_from_unix(p)
    ELSE TypedPathBuf_from_windows(p)

(* ----------------------------- components ----------------------------- *)

\* An engine component is [kind, raw]: its role and the slice of the path
\* it was parsed from.

RECURSIVE SplitAcc(_, _, _, _)
SplitAcc(s, seps, cur, acc) ==
    IF s = <<>> THEN Append(acc, cur)
    ELSE IF Head(s) \in seps
    THEN SplitAcc(Tail(s), seps, <<>>, Append(acc, cur))
    ELSE SplitAcc(Tail(s), seps, Append(cur, Head(s)), acc)

\* the segments between separators, empty ones included
Split(s, seps) == SplitAcc(s, seps, <<>>, <<>>)

\* the components of the segments after prefix and root: empty segments
\* and inner "." are skipped, a leading "." of a rootless path is CurDir
RECURSIVE SegComponents(_, _, _)
SegComponents(segs, leading, rootless) ==
    IF segs = <<>> THEN <<>>
    ELSE LET seg == Head(segs)
             rest == SegComponents(Tail(segs), FALSE, rootless)
         IN  IF seg = <<>> THEN rest
             ELSE IF seg = <<DOT>>
             THEN IF leading /\ rootless
                  THEN <<[kind |-> "CurDir", raw |-> seg]>> \o rest
                  ELSE rest
             ELSE IF seg = <<DOT, DOT>>
             THEN <<[kind |-> "ParentDir", raw |-> seg]>> \o rest
             ELSE <<[kind |-> "Normal", raw |-> seg]>> \o rest

\* UnixPath::components
UnixComponents(s) ==
    LET root == First(s) \in UnixSeparators
        body == IF root THEN Drop(s, 1) ELSE s
    IN  (IF root THEN <<[kind |-> "RootDir", raw |-> <<s[1]>>]>> ELSE <<>>)
        \o SegComponents(Split(body, UnixSeparators), TRUE, ~root)

\* WindowsPath::components
WindowsComponents(s) ==
    LET k == WindowsPrefixLen(s)
        after == Drop(s, k)
        root == First(after) \in WinSeparators
        body == IF root THEN Drop(after, 1) ELSE after
    IN  (IF k > 0 THEN <<[kind |-> "Prefix", raw |-> SubSeq(s, 1, k)]>> ELSE <<>>)
        \o (IF root THEN <<[kind |-> "RootDir", raw |-> <<after[1]>>]>> ELSE <<>>)
        \o SegComponents(Split(body, WinSeparators), TRUE, ~root)

\* Component::as_bytes of each engine: the root is that grammar's
\* separator, "." and ".." are themselves, the rest is the parsed slice
UnixComponent_as_bytes(c) ==
    IF c.kind = "RootDir" THEN <<FS>>
    ELSE IF c.kind = "CurDir" THEN <<DOT>>
    ELSE IF c.kind = "ParentDir" THEN <<DOT, DOT>>
    ELSE c.raw

WindowsComponent_as_bytes(c) ==
    IF c.kind = "RootDir" THEN <<BS>>
    ELSE IF c.kind = "CurDir" THEN <<DOT>>
    ELSE IF c.kind = "ParentDir" THEN <<DOT, DOT>>
    ELSE c.raw

\* Component::len, is_root, is_normal, is_parent, is_current of an engine
UnixComponent_len(c) == Len(UnixComponent_as_bytes(c))

WindowsComponent_len(c) == Len(WindowsComponent_as_bytes(c))

Component_is_root(c) == c.kind = "RootDir"

Component_is_normal(c) == c.kind = "Normal"

Component_is_parent(c) == c.kind = "ParentDir"

Component_is_current(c) == c.kind = "CurDir"

\* A TypedComponent is [tag, kind, raw]: the engine component under the
\* tag of the path that yielded it.
NoComp == [tag |-> "None", kind |-> "None", raw |-> <<>>]

TypedComponent(enc, c) == [tag |-> enc, kind |-> c.kind, raw |-> c.raw]

\* TypedPath::components: the engine's sequence, each value wrapped
TypedPath_components(p) ==
    LET cs == IF p.tag = "Unix"
              THEN UnixComponents(p.bytes)
              ELSE WindowsComponents(p.bytes)
    IN  [i \in 1..Len(cs) |-> TypedComponent(p.tag, cs[i])]

\* TypedComponent::as_bytes
TypedComponent_as_bytes(c) ==
    IF c.tag = "Unix" THEN UnixComponent_as_bytes(c)
    ELSE WindowsComponent_as_bytes(c)

\* is_root forwarding to is_normal
TypedComponent_is_root_as_normal(c) == Component_is_normal(c)

\* TypedComponent::is_root (impl_typed_fn!: either arm calls the wrapped
\* component's method of the same name)
TypedComponent_is_root(c) == Component_is_root(c)

\* TypedComponent::is_normal
TypedComponent_is_normal(c) == Component_is_normal(c)

\* TypedComponent::is_parent
TypedComponent_is_parent(c) == Component_is_parent(c)

\* TypedComponent::is_current
TypedComponent_is_current(c) == Component_is_current(c)

\* TypedComponent::len
TypedComponent_len(c) ==
    IF c.tag = "Unix" THEN UnixComponent_len(c) ELSE WindowsComponent_len(c)

\* TypedComponent::is_empty
TypedComponent_is_empty(c) == TypedComponent_len(c) = 0

\* to_path keeping the component's own tag
TypedComponent_to_path_keep_tag(c) ==
    [tag |-> c.tag, bytes |-> TypedComponent_as_bytes(c)]

\* TypedComponent::to_path
TypedComponent_to_path(c) == TypedPath_new(TypedComponent_as_bytes(c))

(* ------------------------------ mutation ------------------------------ *)

\* UnixPathBuf::push: an absolute segment replaces the buffer, any other
\* is appended after a separator
UnixPathBuf_push(b, seg) ==
    IF First(seg) \in UnixSeparators THEN seg
    ELSE IF Len(b) > 0 /\ Last(b) \notin UnixSeparators
    THEN b \o <<FS>> \o seg
    ELSE b \o seg

\* WindowsPathBuf::push: a segment with a prefix replaces the buffer, a
\* rooted one keeps only the buffer's prefix, any other is appended after
\* a separator (none after a bare drive letter)
WindowsPathBuf_push(b, seg) ==
    IF has_prefix(seg) THEN seg
    ELSE IF First(seg) \in WinSeparators
    THEN SubSeq(b, 1, WindowsPrefixLen(b)) \o seg
    ELSE IF Len(b) > 0 /\ Last(b) \notin WinSeparators
            /\ ~(Len(b) = 2 /\ WindowsPrefixLen(b) = 2)
    THEN b \o <<BS>> \o seg
    ELSE b \o seg

\* push on the buffer a TypedPathBuf holds: the variant is matched, the
\* wrapped buffer grows in place
TypedPathBuf_push(b, seg) ==
    IF b.tag = "Unix"
    THEN Unix(UnixPathBuf_push(b.bytes, seg))
    ELSE Windows(WindowsPathBuf_push(b.bytes, seg))

Segments == {<<BS>>, <<LETTER_C>>, <<LETTER_C, COLON>>}

(* ---------------------------- the program ----------------------------- *)

VARIABLES
    native,   \* the grammar the build binds as native: cfg(unix) / cfg(windows)
    ctor,     \* the constructor that made the current value; "pushed" once
              \* the owned buffer was appended to
    arg,      \* the bytes handed to that constructor
    ctag,     \* the variant chosen at construction
    path,     \* the borrowed TypedPath in scope, or NoVal
    buf,      \* the owned TypedPathBuf in scope, or NoVal
    res,      \* the outcome of the last fallible conversion, or NoRes
    moved,    \* the value that conversion was applied to
    comps,    \* the components the iterator has still to yield
    comp,     \* the TypedComponent yielded last, or NoComp
    cpath     \* to_path() of comp, or NoVal

vars == <<native, ctor, arg, ctag, path, buf, res, moved, comps, comp, cpath>>

Init ==
    /\ native \in Encodings
    /\ ctor = "init"
    /\ arg = <<>>
    /\ ctag = "None"
    /\ path = NoVal
    /\ buf = NoVal
    /\ res = NoRes
    /\ moved = NoVal
    /\ comps = <<>>
    /\ comp = NoComp
    /\ cpath = NoVal

\* a constructor, called where no value is in scope, returns the view p
\* or the buffer v
Construct(name, b, p, v) ==
    /\ ctor' = name
    /\ arg' = b
    /\ ctag' = IF p # NoVal THEN p.tag ELSE v.tag
    /\ path' = p
    /\ buf' = v
    /\ res' = NoRes
    /\ moved' = NoVal
    /\ comps' = <<>>
    /\ comp' = NoComp
    /\ cpath' = NoVal
    /\ UNCHANGED native

New ==
    /\ ctor = "init"
    /\ \E b \in Inputs : Construct("new", b, TypedPath_new(b), NoVal)

FromSlice ==
    /\ ctor = "init"
    /\ \E b \in Inputs :
        Construct("from_slice", b, NoVal, TypedPathBuf_from_slice(b))

FromArray ==
    /\ ctor = "init"
    /\ \E b \in Inputs :
        Construct("from_array", b, NoVal, TypedPathBuf_from_array(b))

FromVec ==
    /\ ctor = "init"
    /\ \E b \in Inputs :
        Construct("from_vec", b, NoVal, TypedPathBuf_from_vec(b))

FromStr ==
    /\ ctor = "init"
    /\ \E b \in Inputs :
        /\ IsUtf8(b)
        /\ Construct("from_str", b, NoVal, TypedPathBuf_from_str(b))

FromString ==
    /\ ctor = "init"
    /\ \E b \in Inputs :
        /\ IsUtf8(b)
        /\ Construct("from_string", b, NoVal, TypedPathBuf_from_string(b))

NativeToTypedPath ==
    /\ ctor = "init"
    /\ \E b \in Inputs :
        Construct("native_path", b, NativePath_to_typed_path(native, b), NoVal)

NativeToTypedPathBuf ==
    /\ ctor = "init"
    /\ \E b \in Inputs :
        Construct("native_buf", b, NoVal, NativePath_to_typed_path_buf(native, b))

\* path.to_path_buf()
ToPathBuf ==
    /\ path # NoVal
    /\ buf' = TypedPath_to_path_buf(path)
    /\ UNCHANGED <<native, ctor, arg, ctag, path, res, moved, comps, comp, cpath>>

\* buf.as_path(): the new view replaces the one in scope
AsPath ==
    /\ buf # NoVal
    /\ path' = TypedPathBuf_as_path(buf)
    /\ comps' = <<>>
    /\ comp' = NoComp
    /\ cpath' = NoVal
    /\ UNCHANGED <<native, ctor, arg, ctag, buf, res, moved>>

\* the buffer is appended to; the views of it end
Push == \E seg \in Segments :
    /\ buf # NoVal
    /\ Len(TypedPathBuf_push(buf, seg).bytes) <= MaxBuf
    /\ buf' = TypedPathBuf_push(buf, seg)
    /\ ctor' = "pushed"
    /\ arg' = <<>>
    /\ path' = NoVal
    /\ comps' = <<>>
    /\ comp' = NoComp
    /\ cpath' = NoVal
    /\ res' = NoRes
    /\ moved' = NoVal
    /\ UNCHANGED <<native, ctag>>

\* a conversion that takes the buffer by value; the views of it end
Consume(r) ==
    /\ res' = r
    /\ moved' = buf
    /\ buf' = NoVal
    /\ path' = NoVal
    /\ comps' = <<>>
    /\ comp' = NoComp
    /\ cpath' = NoVal
    /\ UNCHANGED <<native, ctor, arg, ctag>>

TryIntoUnix ==
    /\ buf # NoVal
    /\ Consume(UnixPathBuf_try_from(buf))

TryIntoWindows ==
    /\ buf # NoVal
    /\ Consume(WindowsPathBuf_try_from(buf))

TryIntoStd == \E accepts \in BOOLEAN :
    /\ buf # NoVal
    /\ Consume(PathBuf_try_from(native, buf, accepts))

\* path.try_as_ref() to &std::path::Path; an iterator in scope is dropped
TryAsRefStd == \E accepts \in BOOLEAN :
    /\ path # NoVal
    /\ res' = TypedPath_try_as_ref(native, path, accepts)
    /\ moved' = path
    /\ comps' = <<>>
    /\ comp' = NoComp
    /\ cpath' = NoVal
    /\ UNCHANGED <<native, ctor, arg, ctag, path, buf>>

\* the caller takes the buffer back out of a failed conversion
Recover ==
    /\ res.kind \in {"unix", "windows", "std"}
    /\ ~res.ok
    /\ buf' = res.val
    /\ res' = NoRes
    /\ moved' = NoVal
    /\ UNCHANGED <<native, ctor, arg, ctag, path, comps, comp, cpath>>

\* path.components(); an earlier conversion's outcome is dropped
Components ==
    /\ path # NoVal
    /\ comps' = TypedPath_components(path)
    /\ comp' = NoComp
    /\ cpath' = NoVal
    /\ res' = NoRes
    /\ moved' = NoVal
    /\ UNCHANGED <<native, ctor, arg, ctag, path, buf>>

\* the iterator's next()
NextComponent ==
    /\ comps # <<>>
    /\ comp' = Head(comps)
    /\ comps' = Tail(comps)
    /\ cpath' = NoVal
    /\ UNCHANGED <<native, ctor, arg, ctag, path, buf, res, moved>>

\* comp.to_path()
ComponentToPath ==
    /\ comp # NoComp
    /\ cpath' = TypedComponent_to_path(comp)
    /\ UNCHANGED <<native, ctor, arg, ctag, path, buf, res, moved, comps, comp>>

\* every value goes out of scope
DropAll ==
    /\ ctor # "init"
    /\ ctor' = "init"
    /\ arg' = <<>>
    /\ ctag' = "None"
    /\ path' = NoVal
    /\ buf' = NoVal
    /\ res' = NoRes
    /\ moved' = NoVal
    /\ comps' = <<>>
    /\ comp' = NoComp
    /\ cpath' = NoVal
    /\ UNCHANGED native

Next ==
    \/ New
    \/ FromSlice
    \/ FromArray
    \/ FromVec
    \/ FromStr
    \/ FromString
    \/ NativeToTypedPath
    \/ NativeToTypedPathBuf
    \/ ToPathBuf
    \/ AsPath
    \/ Push
    \/ TryIntoUnix
    \/ TryIntoWindows
    \/ TryIntoStd
    \/ TryAsRefStd
    \/ Recover
    \/ Components
    \/ NextComponent
    \/ ComponentToPath
    \/ DropAll

Spec == Init /\ [][Next]_vars

(* ------------------------------ properties ---------------------------- *)

OwnedCtors == {"from_slice", "from_array", "from_vec", "from_str", "from_string"}

ClassifyingCtors == OwnedCtors \cup {"new"}

NativeCtors == {"native_path", "native_buf"}

\* the borrowed and the owned value in scope
InScope == {path, buf} \ {NoVal}

SameVariant(v, w) ==
    /\ (v.tag = "Unix") <=> (w.tag = "Unix")
    /\ (v.tag = "Windows") <=> (w.tag = "Windows")

NoBackslash(s) == \A i \in 1..Len(s) : s[i] # BS

\* how many of is_root, is_current, is_parent, is_normal hold of c
RoleCount(c) ==
    (IF TypedComponent_is_root(c) THEN 1 ELSE 0)
    + (IF TypedComponent_is_current(c) THEN 1 ELSE 0)
    + (IF TypedComponent_is_parent(c) THEN 1 ELSE 0)
    + (IF TypedComponent_is_normal(c) THEN 1 ELSE 0)

\* C1: TypedPath::new(b) is exactly one variant, and it is Windows if and
\* only if the Windows parse of b reports a prefix or b starts with '\'.
C1_WindowsIffPrefixOrBackslash ==
    (ctor = "new" /\ path # NoVal) =>
        /\ TypedPath_is_windows(path) <=> (has_prefix(arg) \/ First(arg) = BS)
        /\ TypedPath_is_unix(path) <=> ~TypedPath_is_windows(path)

\* C1: an input without a leading '\' was classified Windows by its prefix.
C1_Witness ==
    /\ ctor = "new"
    /\ First(arg) # BS
    /\ has_prefix(arg)
    /\ TypedPath_is_windows(path)

\* C2 as stated: every input without a backslash byte is classified Unix.
C2_NoBackslashIsUnix ==
    (ctor = "new" /\ path # NoVal /\ NoBackslash(arg)) =>
        TypedPath_is_unix(path)

\* C2 as amended: every input for which the Windows parse reports no prefix
\* and which does not start with '\' is classified Unix (the empty input
\* and '/'-rooted inputs without a prefix among them); an input without a
\* backslash is Windows only by a prefix.
C2_NoMarkerIsUnix ==
    (ctor = "new" /\ path # NoVal) =>
        /\ (~has_prefix(arg) /\ First(arg) # BS) => TypedPath_is_unix(path)
        /\ arg = <<>> => TypedPath_is_unix(path)
        /\ (NoBackslash(arg) /\ TypedPath_is_windows(path)) => has_prefix(arg)

\* C2: a '/'-rooted input of several bytes was classified Unix.
C2_Witness ==
    /\ ctor = "new"
    /\ First(arg) = FS
    /\ Len(arg) > 1
    /\ TypedPath_is_unix(path)

\* C3: every owned constructor yields the variant TypedPath::new yields for
\* the same bytes, and as_path / to_path_buf keep it, so that every value
\* in scope reports that variant.
C3_BorrowedOwnedSymmetry ==
    ctor \in ClassifyingCtors =>
        \A v \in InScope : SameVariant(v, TypedPath_new(arg))

\* C3: a buffer built from a String was viewed through as_path, both
\* Windows.
C3_Witness ==
    /\ ctor = "from_string"
    /\ buf # NoVal
    /\ path # NoVal
    /\ TypedPathBuf_is_windows(buf)
    /\ TypedPath_is_windows(path)

C5_NarrowingLossless ==
    /\ res.kind = "unix" =>
        /\ res.ok <=> TypedPathBuf_is_unix(moved)
        /\ res.ok => res.val = Unix(moved.bytes)
        /\ ~res.ok => res.val = moved
    /\ res.kind = "windows" =>
        /\ res.ok <=> TypedPathBuf_is_windows(moved)
        /\ res.ok => res.val = Windows(moved.bytes)
        /\ ~res.ok => res.val = moved

\* C5: a non-empty Windows buffer was refused by UnixPathBuf::try_from.
C5_Witness ==
    /\ res.kind = "unix"
    /\ ~res.ok
    /\ TypedPathBuf_is_windows(moved)
    /\ moved.bytes # <<>>

C7_ExactlyOneRole ==
    comp # NoComp =>
        /\ RoleCount(comp) = 1
        /\ TypedComponent_len(comp) = Len(TypedComponent_as_bytes(comp))
        /\ TypedComponent_is_empty(comp) <=> Len(TypedComponent_as_bytes(comp)) = 0

\* C7 as amended: every yielded component that is no Windows prefix token
\* satisfies exactly one of the four predicates, a prefix token (yielded by
\* Windows-tagged paths only) satisfies none; len() and is_empty() are as
\* stated for every component.
C7_ExactlyOneRoleUnlessPrefix ==
    comp # NoComp =>
        /\ comp.kind # "Prefix" => RoleCount(comp) = 1
        /\ comp.kind = "Prefix" => (RoleCount(comp) = 0 /\ comp.tag = "Windows")
        /\ TypedComponent_len(comp) = Len(TypedComponent_as_bytes(comp))
        /\ TypedComponent_is_empty(comp) <=> Len(TypedComponent_as_bytes(comp)) = 0

\* C7: a Windows-tagged path yielded its root with more components to come.
C7_Witness ==
    /\ comp.tag = "Windows"
    /\ TypedComponent_is_root(comp)
    /\ comps # <<>>

\* C8: to_path() views the component's bytes under the variant
\* TypedPath::new gives those bytes, whatever the component's tag; a
\* component without prefix and leading '\' comes out Unix.
C8_ToPathReclassifies ==
    cpath # NoVal =>
        /\ cpath.bytes = TypedComponent_as_bytes(comp)
        /\ SameVariant(cpath, TypedPath_new(TypedComponent_as_bytes(comp)))
        /\ (~has_prefix(cpath.bytes) /\ First(cpath.bytes) # BS)
               => TypedPath_is_unix(cpath)

\* C8: a normal segment of a Windows-tagged path became a Unix-tagged path.
C8_Witness ==
    /\ comp.tag = "Windows"
    /\ TypedComponent_is_normal(comp)
    /\ TypedPath_is_unix(cpath)

\* C9: a value made by NativePath::to_typed_path / to_typed_path_buf has
\* the build's native variant and the native path's bytes.
C9_NativeTagNoClassification ==
    ctor \in NativeCtors =>
        \A v \in InScope : v.tag = native /\ v.bytes = arg

\* C9: on a Unix build a native path that TypedPath::new classifies
\* Windows was tagged Unix.
C9_Witness ==
    /\ ctor = "native_path"
    /\ native = "Unix"
    /\ TypedPath_is_unix(path)
    /\ TypedPath_is_windows(TypedPath_new(arg))

\* C10: every value in scope, and every value a failed conversion hands
\* back, has the variant chosen at construction.
C10_TagFixedAtConstruction ==
    /\ \A v \in InScope : v.tag = ctag
    /\ (res.kind \in {"unix", "windows", "std"} /\ ~res.ok) => res.val.tag = ctag

\* C10: after a push, a Unix-tagged buffer and its view hold bytes that
\* TypedPath::new classifies Windows.
C10_Witness ==
    /\ ctor = "pushed"
    /\ buf # NoVal
    /\ path = Unix(buf.bytes)
    /\ TypedPathBuf_is_unix(buf)
    /\ TypedPath_is_windows(TypedPath_new(buf.bytes))

====
